---- MODULE Spec2Model ----
(***************************************************************************)
(* Stock allocation (shopify_tool/analysis.py run_analysis), the manual    *)
(* override (toggle_order_fulfillment) and the rule engine                 *)
(* (shopify_tool/rules.py RuleEngine) of the Shopify fulfillment tool.     *)
(*                                                                         *)
(* A DataFrame is a sequence of records (one record per row, in row        *)
(* order).  Order numbers are strings in the program; they are modelled by *)
(* naturals whose < is the string order the program sorts by.              *)
(***************************************************************************)
EXTENDS Integers, Sequences, FiniteSets, TLC

\* ------------------------------------------------------------------ bounds
MaxLines == 3
MaxQty == 1
MaxStock == 1
NumOrders == 2

\* The SKU universe, in ascending string order (groupby("SKU") iterates its
\* groups in this order).
SKUS == <<"A", "B">>
SKUSet == {SKUS[i] : i \in 1..Len(SKUS)}
SkuIndex(sku) == CHOOSE i \in 1..Len(SKUS) : SKUS[i] = sku

OrderNumbers == 1..NumOrders

\* ------------------------------------------------- float cells (Final_Stock)
\* A float64 cell is NaN or a number: NaN is <<>>, the number n is <<n>>.
NaN == <<>>
Num(n) == <<n>>
IsNaN(x) == x = NaN
Val(x) == x[1]
\* x + q on a float cell: NaN propagates.
FAdd(x, q) == IF IsNaN(x) THEN NaN ELSE Num(Val(x) + q)
\* q > x on a float cell: every comparison with NaN is False.
QtyGt(q, x) == (~IsNaN(x)) /\ q > Val(x)
\* Series.fillna(other): a NaN cell takes the aligned cell of other.
FillNa(x, other) == IF IsNaN(x) THEN other ELSE x

\* ------------------------------------------------------------ row helpers
RECURSIVE SumQuantity(_)
SumQuantity(rows) ==
    IF rows = <<>> THEN 0 ELSE Head(rows).Quantity + SumQuantity(Tail(rows))

\* df[df["Order_Number"] == order_number]
OrderRows(d, order_number) ==
    SelectSeq(d, LAMBDA r : r.Order_Number = order_number)

\* df[df["SKU"] == sku]
SkuRows(d, sku) == SelectSeq(d, LAMBDA r : r.SKU = sku)

OrdersOf(d) == {d[i].Order_Number : i \in 1..Len(d)}
SkusOf(d) == {d[i].SKU : i \in 1..Len(d)}

\* order_items.groupby("SKU")["Quantity"].sum(): the SKUs of the rows in
\* ascending order, each with its summed Quantity.
GroupedSkus(rows) == SelectSeq(SKUS, LAMBDA s : s \in SkusOf(rows))
GroupQuantity(rows, sku) == SumQuantity(SkuRows(rows, sku))

VARIABLES
    pc,                  \* "simulate", "raised", "analysed", "session"
    orders_clean_df,     \* the cleaned order lines, in file order
    stock_clean_df,      \* the cleaned stock: SKU -> Stock, for the SKUs listed
    prioritized_orders,  \* the orders the simulation has still to decide
    live_stock,          \* the dict live_stock
    fulfillment_results, \* the dict fulfillment_results
    df,                  \* final_df / MainWindow.analysis_results_df
    last,                \* what the last call on df returned
    stats,               \* the stats run_analysis computes and
                         \* run_full_analysis returns
    mw                   \* the MainWindow: analysis_stats, the buttons that
                         \* set_ui_busy switches, the workers in flight

vars == <<pc, orders_clean_df, stock_clean_df, prioritized_orders, live_stock,
          fulfillment_results, df, last, stats, mw>>

\* ------------------------------------------------------------- the inputs
Lines == [Order_Number : OrderNumbers, SKU : SKUSet, Quantity : 0..MaxQty]

LineLeq(a, b) ==
    \/ a.Order_Number < b.Order_Number
    \/ /\ a.Order_Number = b.Order_Number
       /\ \/ SkuIndex(a.SKU) < SkuIndex(b.SKU)
          \/ a.SKU = b.SKU /\ a.Quantity <= b.Quantity

\* Order exports list the line items of an order together.  No operation of
\* the model reads the position of a line in the file other than through the
\* row order of one order, so the files of the model list their lines in
\* ascending (Order_Number, SKU, Quantity) order; and an order number stands
\* for its rank among the order numbers of the file, so the orders of a file
\* are 1..k.
OrderFiles ==
    {s \in UNION {[1..n -> Lines] : n \in 0..MaxLines} :
        /\ \A i \in 1..(Len(s) - 1) : LineLeq(s[i], s[i + 1])
        /\ OrdersOf(s) = 1..Cardinality(OrdersOf(s))}

\* The stock file after dropna and drop_duplicates: one Stock per listed SKU.
StockFiles == UNION {[S -> 0..MaxStock] : S \in SUBSET SKUSet}

\* item_count: orders_clean_df.groupby("Order_Number").size()
item_count(lines, order_number) == Len(OrderRows(lines, order_number))

\* A faulty variant of SortsBefore: item_count ascending.
SortsBeforeAscending(lines, a, b) ==
    \/ item_count(lines, a) < item_count(lines, b)
    \/ item_count(lines, a) = item_count(lines, b) /\ a < b

\* The sort key of prioritized_orders: item_count descending, then
\* Order_Number ascending.
SortsBefore(lines, a, b) ==
    \/ item_count(lines, a) > item_count(lines, b)
    \/ item_count(lines, a) = item_count(lines, b) /\ a < b

RECURSIVE SortOrders(_, _)
SortOrders(lines, S) ==
    IF S = {} THEN <<>>
    ELSE LET first == CHOOSE a \in S : \A b \in S \ {a} : SortsBefore(lines, a, b)
         IN  <<first>> \o SortOrders(lines, S \ {first})

\* orders_with_counts[["Order_Number", "item_count"]].drop_duplicates()
\*     .sort_values(by=["item_count", "Order_Number"], ascending=[False, True])
PrioritizedOrders(lines) == SortOrders(lines, OrdersOf(lines))

\* None in the Order_Number column (nunique does not count it).
NoneOrder == 0

\* ------------------------------------------------- recalculate_statistics
\* recalculate_statistics(df), without couriers_stats (the model holds no
\* Shipping_Provider column).
recalculate_statistics(d) ==
    LET completed_orders_df ==
            SelectSeq(d, LAMBDA r : r.Order_Fulfillment_Status = "Fulfillable")
        not_completed_orders_df ==
            SelectSeq(d, LAMBDA r : r.Order_Fulfillment_Status = "Not Fulfillable")
    IN  [total_orders_completed |->
            Cardinality(OrdersOf(completed_orders_df) \ {NoneOrder}),
         total_orders_not_completed |->
            Cardinality(OrdersOf(not_completed_orders_df) \ {NoneOrder}),
         total_items_to_write_off |-> SumQuantity(completed_orders_df),
         total_items_not_to_write_off |-> SumQuantity(not_completed_orders_df)]

\* A stats value is None or a dict: None is <<>>, the dict s is <<s>>.
NoStats == <<>>
Stats(s) == <<s>>

\* ------------------------------------------------------------ MainWindow
\* settings.get("low_stock_threshold") of the active profile: None is <<>>,
\* the number t is <<t>>.
NoThreshold == <<>>
Threshold(t) == <<t>>

\* The MainWindow when no worker is in flight and no analysis has been
\* delivered: Run Analysis is enabled (the files are loaded) and the report
\* buttons are not.
MainWindowIdle ==
    [analysis_stats |-> NoStats, run_analysis_button |-> TRUE,
     report_buttons |-> FALSE, analysis_workers |-> 0, report_workers |-> 0,
     low_stock_threshold |-> NoThreshold]

\* UIManager.set_ui_busy(is_busy), on the row set d
set_ui_busy(m, d, is_busy) ==
    [m EXCEPT !.run_analysis_button = ~is_busy,
              !.report_buttons = (~is_busy) /\ d # <<>>]

\* MainWindow._update_all_views, the slot of data_changed
UpdateAllViews(m, d) ==
    set_ui_busy([m EXCEPT !.analysis_stats = Stats(recalculate_statistics(d))],
                d, FALSE)

\* last records the last call on the session's row set: the operation, its
\* argument, what it returned (success, error message, SKUs named), the row
\* set before the call, and origin: the row set before the call preceding it
\* when that call was a successful toggle of the same order (else <<>>).
NoCall == [op |-> "none", order_number |-> 0, success |-> TRUE, error |-> "",
           skus |-> <<>>, before |-> <<>>, origin |-> <<>>,
           config |-> [is_list |-> TRUE, rules |-> <<>>]]

\* run_analysis is entered with the cleaned files.
InitFiles ==
    /\ orders_clean_df \in OrderFiles
    /\ stock_clean_df \in StockFiles
    /\ pc = "simulate"
    /\ prioritized_orders = PrioritizedOrders(orders_clean_df)
    /\ live_stock = stock_clean_df
    /\ fulfillment_results = <<>>
    /\ df = <<>>
    /\ last = NoCall
    /\ stats = NoStats

Init ==
    /\ InitFiles
    /\ mw = MainWindowIdle

\* ------------------------------------------------ the fulfillment simulation
\* live_stock.get(sku, 0)
LiveGet(live, sku) == IF sku \in DOMAIN live THEN live[sku] ELSE 0

\* The check loop: the order can be fulfilled unless some line needs more than
\* the live stock of its SKU.
CanFulfillOrder(order_items, live) ==
    \A i \in 1..Len(order_items) :
        ~(order_items[i].Quantity > LiveGet(live, order_items[i].SKU))

\* The deduction loop, live_stock[item["SKU"]] -= item["Quantity"] per line:
\* reading a SKU that live_stock does not hold raises KeyError and ends the
\* loop with the earlier lines deducted.
RECURSIVE DeductItems(_, _)
DeductItems(order_items, live) ==
    IF order_items = <<>> THEN [live |-> live, raised |-> FALSE]
    ELSE LET item == Head(order_items)
         IN  IF item.SKU \notin DOMAIN live
             THEN [live |-> live, raised |-> TRUE]
             ELSE DeductItems(Tail(order_items),
                              [live EXCEPT ![item.SKU] = @ - item.Quantity])

\* A faulty variant of StockAfterOrder: each line that passes its own check is deducted
\* at once, whatever the other lines of the order do.
RECURSIVE DeductAvailable(_, _)
DeductAvailable(order_items, live) ==
    IF order_items = <<>> THEN [live |-> live, raised |-> FALSE]
    ELSE LET item == Head(order_items)
         IN  IF item.SKU \in DOMAIN live /\ item.Quantity <= live[item.SKU]
             THEN DeductAvailable(Tail(order_items),
                                  [live EXCEPT ![item.SKU] = @ - item.Quantity])
             ELSE DeductAvailable(Tail(order_items), live)
StockAfterOrderPartial(order_items, live) == DeductAvailable(order_items, live)

\* One pass of the loop body for one order: what it leaves in live_stock and
\* whether it raised.
StockAfterOrder(order_items, live) ==
    IF CanFulfillOrder(order_items, live)
    THEN DeductItems(order_items, live)
    ELSE [live |-> live, raised |-> FALSE]

DecideStatus(order_items, live) ==
    IF CanFulfillOrder(order_items, live) THEN "Fulfillable" ELSE "Not Fulfillable"

AllocateOrder ==
    /\ pc = "simulate"
    /\ prioritized_orders # <<>>
    /\ LET order_number == Head(prioritized_orders)
           order_items == OrderRows(orders_clean_df, order_number)
           after == StockAfterOrder(order_items, live_stock)
       IN  /\ fulfillment_results' =
                [o \in DOMAIN fulfillment_results \cup {order_number} |->
                    IF o = order_number
                    THEN DecideStatus(order_items, live_stock)
                    ELSE fulfillment_results[o]]
           /\ live_stock' = after.live
           /\ pc' = IF after.raised THEN "raised" ELSE "simulate"
    /\ prioritized_orders' = Tail(prioritized_orders)
    /\ UNCHANGED <<orders_clean_df, stock_clean_df, df, last, stats, mw>>

\* ---------------------------------------------------- the report (final_df)
\* The Stock cell of a line after the left merge with stock_clean_df.
MergedStock(stock, sku) == IF sku \in DOMAIN stock THEN Num(stock[sku]) ELSE NaN

\* The Final_Stock cell of a line after the left merge with final_stock_levels.
MergedFinalStock(live, sku) == IF sku \in DOMAIN live THEN Num(live[sku]) ELSE NaN

\* Final_Stock is filled from Stock before Stock itself is filled with 0.
ReportRow(line, stock, live, results) ==
    [Order_Number |-> line.Order_Number,
     SKU |-> line.SKU,
     Quantity |-> line.Quantity,
     Stock |-> Val(FillNa(MergedStock(stock, line.SKU), Num(0))),
     Final_Stock |-> FillNa(MergedFinalStock(live, line.SKU),
                            MergedStock(stock, line.SKU)),
     Order_Fulfillment_Status |-> results[line.Order_Number],
     Status_Note |-> <<>>]

BuildReport ==
    /\ pc = "simulate"
    /\ prioritized_orders = <<>>
    /\ df' = [i \in 1..Len(orders_clean_df) |->
                ReportRow(orders_clean_df[i], stock_clean_df, live_stock,
                          fulfillment_results)]
    /\ stats' = Stats(recalculate_statistics(df'))
    /\ pc' = "analysed"
    /\ UNCHANGED <<orders_clean_df, stock_clean_df, prioritized_orders,
                   live_stock, fulfillment_results, last, mw>>

\* ------------------------------------------------- toggle_order_fulfillment
\* A faulty variant of AddToSku: only the first row of the SKU is updated.
AddToSkuFirstRow(d, sku, quantity) ==
    [i \in 1..Len(d) |->
        IF d[i].SKU = sku /\ (\A j \in 1..(i - 1) : d[j].SKU # sku)
        THEN [d[i] EXCEPT !.Final_Stock = FAdd(@, quantity)]
        ELSE d[i]]

\* df.loc[df["SKU"] == sku, "Final_Stock"] += quantity
AddToSku(d, sku, quantity) ==
    [i \in 1..Len(d) |->
        IF d[i].SKU = sku
        THEN [d[i] EXCEPT !.Final_Stock = FAdd(@, quantity)]
        ELSE d[i]]

\* A faulty variant of ReturnStock: the quantity is added back on the rows of the order
\* only, not on every row with the SKU.
ReturnStockOwnRows(d, skus, order_items) ==
    [i \in 1..Len(d) |->
        IF \E j \in 1..Len(order_items) :
              /\ d[i].Order_Number = order_items[j].Order_Number
              /\ d[i].SKU \in SkusOf(order_items)
        THEN [d[i] EXCEPT !.Final_Stock =
                FAdd(@, GroupQuantity(order_items, d[i].SKU))]
        ELSE d[i]]

\* for sku, quantity in stock_to_return.items(): add the quantity back
RECURSIVE ReturnStock(_, _, _)
ReturnStock(d, skus, order_items) ==
    IF skus = <<>> THEN d
    ELSE ReturnStock(AddToSku(d, Head(skus), GroupQuantity(order_items, Head(skus))),
                     Tail(skus), order_items)

\* df.loc[df["SKU"] == sku, "Final_Stock"].iloc[0]
CurrentStock(d, sku) == SkuRows(d, sku)[1].Final_Stock

\* A faulty variant of LackingSkus: a SKU is lacking already when the needed quantity
\* equals the current stock.
LackingSkusOffByOne(d, order_items) ==
    SelectSeq(GroupedSkus(order_items),
              LAMBDA sku : /\ sku \in SkusOf(d)
                           /\ ~IsNaN(CurrentStock(d, sku))
                           /\ GroupQuantity(order_items, sku)
                                 >= Val(CurrentStock(d, sku)))

\* The pre-flight check: the SKUs of the order, in group order, that the row
\* set holds and whose needed quantity is greater than the current stock.
LackingSkus(d, order_items) ==
    SelectSeq(GroupedSkus(order_items),
              LAMBDA sku : /\ sku \in SkusOf(d)
                           /\ QtyGt(GroupQuantity(order_items, sku),
                                    CurrentStock(d, sku)))

\* The cells of a placeholder row that the code leaves None.
NoneStatus == "None"
NoneNote == <<"None">>

\* new_row: every column None but SKU and Quantity, then SKU, Quantity 0,
\* Stock 0 and Final_Stock 0.
PlaceholderRow(sku) ==
    [Order_Number |-> NoneOrder, SKU |-> sku, Quantity |-> 0, Stock |-> 0,
     Final_Stock |-> Num(0), Order_Fulfillment_Status |-> NoneStatus,
     Status_Note |-> NoneNote]

\* for sku, needed_qty in items_needed.items(): add the placeholder row of a
\* SKU the row set does not hold, then deduct
RECURSIVE DeductStock(_, _, _)
DeductStock(d, skus, order_items) ==
    IF skus = <<>> THEN d
    ELSE LET sku == Head(skus)
             listed == IF sku \notin SkusOf(d) THEN Append(d, PlaceholderRow(sku)) ELSE d
         IN  DeductStock(AddToSku(listed, sku, 0 - GroupQuantity(order_items, sku)),
                         Tail(skus), order_items)

\* A faulty variant of SetOrderStatus: the status is written to every row.
SetOrderStatusEveryRow(d, order_number, new_status) ==
    [i \in 1..Len(d) |->
        [d[i] EXCEPT !.Order_Fulfillment_Status = new_status]]

\* df.loc[df["Order_Number"] == order_number, "Order_Fulfillment_Status"] = new_status
SetOrderStatus(d, order_number, new_status) ==
    [i \in 1..Len(d) |->
        IF d[i].Order_Number = order_number
        THEN [d[i] EXCEPT !.Order_Fulfillment_Status = new_status]
        ELSE d[i]]

\* df.loc[df["Order_Number"] == order_number, "Order_Fulfillment_Status"].iloc[0]
CurrentStatus(d, order_number) == OrderRows(d, order_number)[1].Order_Fulfillment_Status

\* The Fulfillable branch: return the stock of the order.
UnfulfillOrder(d, order_number) ==
    LET order_items == OrderRows(d, order_number)
    IN  [success |-> TRUE, error |-> "", skus |-> <<>>,
         df |-> SetOrderStatus(ReturnStock(d, GroupedSkus(order_items), order_items),
                               order_number, "Not Fulfillable")]

\* A faulty variant of ForceFulfillOrder: the SKUs that pass the check are deducted
\* before the call aborts on the lacking ones.
ForceFulfillOrderEager(d, order_number) ==
    LET order_items == OrderRows(d, order_number)
        lacking_skus == LackingSkus(d, order_items)
        passing == SelectSeq(GroupedSkus(order_items),
                             LAMBDA sku : \A k \in 1..Len(lacking_skus) :
                                             lacking_skus[k] # sku)
    IN  IF lacking_skus # <<>>
        THEN [success |-> FALSE, error |-> "Insufficient stock",
              skus |-> lacking_skus, df |-> DeductStock(d, passing, order_items)]
        ELSE [success |-> TRUE, error |-> "", skus |-> <<>>,
              df |-> SetOrderStatus(DeductStock(d, GroupedSkus(order_items), order_items),
                                    order_number, "Fulfillable")]

\* The other branch: force-fulfill the order, or abort on lacking SKUs.
ForceFulfillOrder(d, order_number) ==
    LET order_items == OrderRows(d, order_number)
        lacking_skus == LackingSkus(d, order_items)
    IN  IF lacking_skus # <<>>
        THEN [success |-> FALSE, error |-> "Insufficient stock",
              skus |-> lacking_skus, df |-> d]
        ELSE [success |-> TRUE, error |-> "", skus |-> <<>>,
              df |-> SetOrderStatus(DeductStock(d, GroupedSkus(order_items), order_items),
                                    order_number, "Fulfillable")]

\* toggle_order_fulfillment(df, order_number): (success, error_message, df)
toggle_order_fulfillment(d, order_number) ==
    IF order_number \notin OrdersOf(d)
    THEN [success |-> FALSE, error |-> "Order number not found.",
          skus |-> <<>>, df |-> d]
    ELSE IF CurrentStatus(d, order_number) = "Fulfillable"
         THEN UnfulfillOrder(d, order_number)
         ELSE ForceFulfillOrder(d, order_number)

\* ActionsHandler.toggle_fulfillment_status_for_order: the session keeps the
\* returned row set and, on success, data_changed refreshes the views.
Toggle(order_number) ==
    /\ pc \in {"analysed", "session"}
    /\ LET r == toggle_order_fulfillment(df, order_number)
       IN  /\ df' = r.df
           /\ last' = [op |-> "toggle", order_number |-> order_number,
                       success |-> r.success, error |-> r.error, skus |-> r.skus,
                       before |-> df,
                       origin |-> IF /\ last.op = "toggle"
                                     /\ last.order_number = order_number
                                     /\ last.success
                                  THEN last.before ELSE <<>>,
                       config |-> NoCall.config]
           /\ mw' = IF r.success THEN UpdateAllViews(mw, r.df) ELSE mw
    /\ pc' = "session"
    /\ UNCHANGED <<orders_clean_df, stock_clean_df, prioritized_orders,
                   live_stock, fulfillment_results, stats>>

\* ------------------------------------------------------------ stock alerts
\* A faulty variant of StockAlert: a Final_Stock equal to the threshold is
\* alerted too.
StockAlertAtMost(final_stock, low_stock_threshold) ==
    IF (~IsNaN(final_stock)) /\ Val(final_stock) <= Val(low_stock_threshold)
    THEN "Low Stock" ELSE ""

\* np.where(final_df["Final_Stock"] < low_stock_threshold, "Low Stock", "")
\* on one cell: the comparison with NaN is False.
StockAlert(final_stock, low_stock_threshold) ==
    IF (~IsNaN(final_stock)) /\ Val(final_stock) < Val(low_stock_threshold)
    THEN "Low Stock" ELSE ""

\* final_df["Stock_Alert"] = ...: the column is added to every row.
WithStockAlert(d, low_stock_threshold) ==
    [i \in 1..Len(d) |->
        [c \in DOMAIN d[i] \cup {"Stock_Alert"} |->
            IF c = "Stock_Alert"
            THEN StockAlert(d[i].Final_Stock, low_stock_threshold)
            ELSE d[i][c]]]

\* The thresholds a profile may configure, and none.
Thresholds == {NoThreshold} \cup {Threshold(t) : t \in 0..(MaxStock + 1)}

\* A session whose profile configures some threshold.
InitAlerts ==
    /\ InitFiles
    /\ mw \in {[MainWindowIdle EXCEPT !.low_stock_threshold = t] : t \in Thresholds}

\* core.run_full_analysis, step 2.5: the stock alerts are added to the result
\* of run_analysis when the settings hold a threshold.
AddStockAlerts ==
    /\ pc = "analysed"
    /\ df' = IF mw.low_stock_threshold # NoThreshold
             THEN WithStockAlert(df, mw.low_stock_threshold)
             ELSE df
    /\ last' = [NoCall EXCEPT !.op = "alerts", !.before = df]
    /\ pc' = "session"
    /\ UNCHANGED <<orders_clean_df, stock_clean_df, prioritized_orders,
                   live_stock, fulfillment_results, stats, mw>>

\* ------------------------------------------------------------- RuleEngine
\* A Status_Note and the value of an action are strings, held as the sequence
\* of their characters; a word without comma and space (a status, a SKU, the
\* marker of EXCLUDE_SKU) stands as one character.
Word(value) == value[1]
CommaSpace == <<",", " ">>
ExcludedMarker == <<" ", "SKU_EXCLUDED">>

\* note.split(", ")
RECURSIVE SplitNote(_)
SplitNote(note) ==
    LET hits == {i \in 1..(Len(note) - 1) : SubSeq(note, i, i + 1) = CommaSpace}
    IN  IF hits = {} THEN <<note>>
        ELSE LET first == CHOOSE i \in hits : \A j \in hits : i <= j
             IN  <<SubSeq(note, 1, first - 1)>>
                 \o SplitNote(SubSeq(note, first + 2, Len(note)))

\* append_note(note) of the ADD_TAG branch, for the tag value
append_note(note, value) ==
    IF \E k \in DOMAIN SplitNote(note) : SplitNote(note)[k] = value THEN note
    ELSE IF note # <<>> THEN note \o CommaSpace \o value
    ELSE value

\* df.columns of the frames run_analysis builds, as far as the model holds them
Columns == {"Order_Number", "SKU", "Quantity", "Stock", "Final_Stock",
            "Order_Fulfillment_Status", "Status_Note"}
FloatColumns == {"Final_Stock"}

\* OPERATOR_MAP, as far as the model holds it
OPERATOR_MAP == {"equals", "does not equal", "is greater than", "is less than"}

\* float(rule_val) of the numeric operators, for the values of the model
Float(rule_val) == CASE rule_val = "0" -> 0 [] rule_val = "1" -> 1

\* op_func(df[field], value) on the cell of one row
ConditionHolds(row, cond) ==
    LET cell == row[cond.field]
    IN  CASE cond.operator = "equals" -> cell = cond.value
          [] cond.operator = "does not equal" -> cell # cond.value
          [] cond.operator = "is greater than" ->
                IF cond.field \in FloatColumns
                THEN (~IsNaN(cell)) /\ Val(cell) > Float(cond.value)
                ELSE cell > Float(cond.value)
          [] cond.operator = "is less than" ->
                IF cond.field \in FloatColumns
                THEN (~IsNaN(cell)) /\ Val(cell) < Float(cond.value)
                ELSE cell < Float(cond.value)

\* The conditions _get_matching_rows does not skip: the field is a column of
\* the frame and the operator is known.
UsableConditions(columns, rule) ==
    SelectSeq(rule.conditions,
              LAMBDA cond : cond.field \in columns /\ cond.operator \in OPERATOR_MAP)

\* A faulty variant of RowMatches: a rule without usable conditions matches every
\* row under ALL.
RowMatchesVacuously(row, rule) ==
    LET usable == UsableConditions(DOMAIN row, rule)
    IN  IF rule.match = "ALL"
        THEN \A i \in 1..Len(usable) : ConditionHolds(row, usable[i])
        ELSE \E i \in 1..Len(usable) : ConditionHolds(row, usable[i])

\* _get_matching_rows: the row matches the rule
RowMatches(row, rule) ==
    LET usable == UsableConditions(DOMAIN row, rule)
    IN  IF rule.conditions = <<>> \/ usable = <<>> THEN FALSE
        ELSE IF rule.match = "ALL"
             THEN \A i \in 1..Len(usable) : ConditionHolds(row, usable[i])
             ELSE \E i \in 1..Len(usable) : ConditionHolds(row, usable[i])

\* The action types of all the rules.
ActionTypes(rules) ==
    UNION {{rules[i].actions[k].type : k \in DOMAIN rules[i].actions} :
             i \in DOMAIN rules}

\* needed_columns of _prepare_df_for_actions
NeededColumns(rules) ==
    (IF "SET_PRIORITY" \in ActionTypes(rules) THEN {"Priority"} ELSE {})
    \cup (IF "EXCLUDE_FROM_REPORT" \in ActionTypes(rules) THEN {"_is_excluded"} ELSE {})
    \cup (IF ActionTypes(rules) \cap {"EXCLUDE_SKU", "ADD_TAG"} # {}
          THEN {"Status_Note"} ELSE {})

\* The default of a column _prepare_df_for_actions creates.
ColumnDefault(column) ==
    CASE column = "Priority" -> "Normal"
      [] column = "_is_excluded" -> FALSE
      [] column = "Status_Note" -> <<>>

\* The frame with the columns added that it lacks.
WithColumns(d, columns) ==
    [i \in 1..Len(d) |->
        [c \in DOMAIN d[i] \cup columns |->
            IF c \in DOMAIN d[i] THEN d[i][c] ELSE ColumnDefault(c)]]

\* _prepare_df_for_actions
PrepareDfForActions(d, rules) == WithColumns(d, NeededColumns(rules))

\* A faulty variant of ExcludeSku: the SKU of the row is not compared.
ExcludeSkuOnAnyRow(row, value) ==
    [row EXCEPT !.Quantity = 0, !.Status_Note = @ \o ExcludedMarker]

\* The EXCLUDE_SKU branch on one matching row: final_matches, Quantity 0 and
\* the marker appended to Status_Note.
ExcludeSku(row, value) ==
    IF row.SKU = value
    THEN [row EXCEPT !.Quantity = 0, !.Status_Note = @ \o ExcludedMarker]
    ELSE row

\* One action of _execute_actions on one matching row.
ActOnRow(row, action) ==
    CASE action.type = "ADD_TAG" ->
            [row EXCEPT !.Status_Note = append_note(@, action.value)]
      [] action.type = "SET_STATUS" ->
            [row EXCEPT !.Order_Fulfillment_Status = Word(action.value)]
      [] action.type = "SET_PRIORITY" -> [row EXCEPT !.Priority = Word(action.value)]
      [] action.type = "EXCLUDE_FROM_REPORT" -> [row EXCEPT !["_is_excluded"] = TRUE]
      [] action.type = "EXCLUDE_SKU" -> ExcludeSku(row, Word(action.value))
      [] OTHER -> row

\* A faulty variant of ExecuteAction: the action is executed on every row.
ExecuteActionOnEveryRow(d, matches, action) ==
    [i \in 1..Len(d) |-> ActOnRow(d[i], action)]

\* One action of _execute_actions on the matching rows (matches is the set of
\* matching row positions).
ExecuteAction(d, matches, action) ==
    [i \in 1..Len(d) |-> IF i \in matches THEN ActOnRow(d[i], action) ELSE d[i]]

RECURSIVE ExecuteActions(_, _, _)
ExecuteActions(d, matches, actions) ==
    IF actions = <<>> THEN d
    ELSE ExecuteActions(ExecuteAction(d, matches, Head(actions)), matches,
                        Tail(actions))

\* The rows of the frame that match the rule.
MatchingRows(d, rule) == {i \in 1..Len(d) : RowMatches(d[i], rule)}

\* A faulty variant of ApplyRuleList: every rule is matched against the rows as
\* they were before the first rule.
RECURSIVE ApplyOnSnapshot(_, _, _)
ApplyOnSnapshot(snapshot, d, rules) ==
    IF rules = <<>> THEN d
    ELSE ApplyOnSnapshot(snapshot,
                         ExecuteActions(d, MatchingRows(snapshot, Head(rules)),
                                        Head(rules).actions),
                         Tail(rules))
ApplyRuleListOnSnapshot(d, rules) == ApplyOnSnapshot(d, d, rules)

\* The loop of RuleEngine.apply: each rule is matched against the rows as the
\* earlier rules left them.
RECURSIVE ApplyRuleList(_, _)
ApplyRuleList(d, rules) ==
    IF rules = <<>> THEN d
    ELSE LET matches == MatchingRows(d, Head(rules))
         IN  ApplyRuleList(IF matches # {}
                           THEN ExecuteActions(d, matches, Head(rules).actions)
                           ELSE d,
                           Tail(rules))

\* A faulty variant of RuleEngineApply: the columns of every action type are
\* created before the rule list is looked at.
RuleEngineApplyEagerColumns(d, rules) ==
    ApplyRuleList(WithColumns(d, {"Priority", "_is_excluded", "Status_Note"}), rules)

\* RuleEngine(rules).apply(df) for a list of rules
RuleEngineApply(d, rules) ==
    IF rules = <<>> THEN d ELSE ApplyRuleList(PrepareDfForActions(d, rules), rules)

\* RuleEngine(rules_config).apply(df): rules_config is a list (is_list) or None
RuleEngine_apply(d, rules_config) ==
    IF ~rules_config.is_list THEN d ELSE RuleEngineApply(d, rules_config.rules)

ListConfig(rules) == [is_list |-> TRUE, rules |-> rules]
NoneConfig == [is_list |-> FALSE, rules |-> <<>>]

\* The rule configurations of the model.
MaxRules == 1
Statuses == {"Fulfillable", "Not Fulfillable"}
RuleConditions ==
    {[field |-> "SKU", operator |-> "equals", value |-> s] : s \in SKUSet}
    \cup {[field |-> "Order_Fulfillment_Status", operator |-> "equals", value |-> v] :
            v \in Statuses}
    \cup {[field |-> "Quantity", operator |-> "is greater than", value |-> "0"]}
\* SET_STATUS writes action.get("value") as it is configured.
RuleStatusValues == Statuses \cup {"On Hold"}
RuleActions ==
    {[type |-> "SET_STATUS", value |-> <<v>>] : v \in RuleStatusValues}
    \cup {[type |-> "EXCLUDE_SKU", value |-> <<s>>] : s \in SKUSet}
Rules ==
    {[match |-> m, conditions |-> c, actions |-> <<a>>] :
        m \in {"ALL"}, c \in {<<>>} \cup {<<x>> : x \in RuleConditions},
        a \in RuleActions}
RuleConfigs == UNION {[1..n -> Rules] : n \in 0..MaxRules}

\* core.run_full_analysis, step 2.6: the configured rules are applied to the
\* result of run_analysis before the session gets it.
ApplyRules(rules) ==
    /\ pc = "analysed"
    /\ df' = RuleEngineApply(df, rules)
    /\ last' = [NoCall EXCEPT !.op = "rules", !.before = df,
                              !.config = ListConfig(rules)]
    /\ pc' = "session"
    /\ UNCHANGED <<orders_clean_df, stock_clean_df, prioritized_orders,
                   live_stock, fulfillment_results, stats, mw>>

\* ------------------------------------------- RuleEngine.apply on its own
\* The frames and rule lists RuleEngine.apply is called with on its own.
MaxRows == 2
MaxTagLen == 2
MaxConditions == 2
MaxChain == 2

Chars == {"a", ",", " "}
Tags == UNION {[1..n -> Chars] : n \in 1..MaxTagLen}
EngineNotes == {<<>>, <<"a">>}
EngineRows ==
    [Order_Number : {1}, SKU : SKUSet, Quantity : 1..MaxQty, Stock : {MaxStock},
     Final_Stock : {Num(MaxStock)}, Order_Fulfillment_Status : Statuses,
     Status_Note : EngineNotes]

\* The engine works row by row, so the frames list their rows in one order.
RowLeq(a, b) ==
    LET key(r) == <<SkuIndex(r.SKU), r.Quantity,
                    IF r.Order_Fulfillment_Status = "Fulfillable" THEN 0 ELSE 1,
                    Len(r.Status_Note)>>
        first == {k \in 1..4 : key(a)[k] # key(b)[k]}
    IN  first = {} \/ LET k == CHOOSE k \in first : \A j \in first : k <= j
                      IN  key(a)[k] < key(b)[k]
EngineFrames ==
    {f \in UNION {[1..n -> EngineRows] : n \in 0..MaxRows} :
        \A i \in 1..(Len(f) - 1) : RowLeq(f[i], f[i + 1])}

\* Conditions: two usable ones, one on a field no frame has, one with an
\* operator OPERATOR_MAP does not know.
SkuIsA == [field |-> "SKU", operator |-> "equals", value |-> "A"]
StatusIsFulfillable ==
    [field |-> "Order_Fulfillment_Status", operator |-> "equals", value |-> "Fulfillable"]
UnknownField == [field |-> "NonExistentField", operator |-> "equals", value |-> "A"]
UnknownOperator == [field |-> "SKU", operator |-> "matches", value |-> "A"]
EngineConditions == {SkuIsA, StatusIsFulfillable, UnknownField, UnknownOperator}
ConditionLists == UNION {[1..n -> EngineConditions] : n \in 0..MaxConditions}

\* Rules that differ in their conditions and match mode.
MatchingRules ==
    {[match |-> m, conditions |-> c,
      actions |-> <<[type |-> "SET_STATUS", value |-> <<"On Hold">>]>>] :
        m \in {"ALL", "ANY"}, c \in ConditionLists}

\* Rules that differ in their action.
EngineActions ==
    {[type |-> "SET_STATUS", value |-> <<"Not Fulfillable">>],
     [type |-> "SET_PRIORITY", value |-> <<"High">>],
     [type |-> "EXCLUDE_FROM_REPORT", value |-> <<>>]}
    \cup {[type |-> "EXCLUDE_SKU", value |-> <<s>>] : s \in SKUSet}
    \cup {[type |-> "ADD_TAG", value |-> t] : t \in Tags}
ActionRules ==
    {[match |-> "ALL", conditions |-> <<c>>, actions |-> <<a>>] :
        c \in {SkuIsA, StatusIsFulfillable}, a \in EngineActions}

\* Rules for lists of several rules: the action of one changes what the
\* condition of another reads.
ChainRules ==
    {[match |-> "ALL", conditions |-> <<StatusIsFulfillable>>,
      actions |-> <<[type |-> "SET_STATUS", value |-> <<"Not Fulfillable">>]>>],
     [match |-> "ALL", conditions |-> <<SkuIsA>>,
      actions |-> <<[type |-> "SET_STATUS", value |-> <<"Fulfillable">>]>>],
     [match |-> "ALL", conditions |-> <<StatusIsFulfillable>>,
      actions |-> <<[type |-> "ADD_TAG", value |-> <<"a">>]>>],
     [match |-> "ALL", conditions |-> <<StatusIsFulfillable>>,
      actions |-> <<[type |-> "EXCLUDE_SKU", value |-> <<"A">>]>>]}
ChainLists == UNION {[1..n -> ChainRules] : n \in 2..MaxChain}

EngineConfigs ==
    {NoneConfig, ListConfig(<<>>)}
    \cup {ListConfig(<<r>>) : r \in MatchingRules \cup ActionRules}
    \cup {ListConfig(l) : l \in ChainLists}

InitEngine ==
    /\ pc = "engine"
    /\ df \in EngineFrames
    /\ orders_clean_df = <<>>
    /\ stock_clean_df = <<>>
    /\ prioritized_orders = <<>>
    /\ live_stock = <<>>
    /\ fulfillment_results = <<>>
    /\ last = NoCall
    /\ stats = NoStats
    /\ mw = MainWindowIdle

\* RuleEngine(rules_config).apply(df)
EngineApply(rules_config) ==
    /\ pc = "engine"
    /\ df' = RuleEngine_apply(df, rules_config)
    /\ last' = [NoCall EXCEPT !.op = "rules", !.before = df, !.config = rules_config]
    /\ pc' = "applied"
    /\ UNCHANGED <<orders_clean_df, stock_clean_df, prioritized_orders,
                   live_stock, fulfillment_results, stats, mw>>

\* -------------------------------------------------------- direct edits
\* df.drop(df.index[row_index]); reset_index(drop=True)
DropRow(d, row_index) ==
    [i \in 1..(Len(d) - 1) |-> IF i < row_index THEN d[i] ELSE d[i + 1]]

\* df[df["Order_Number"] != order_number].reset_index(drop=True)
DropOrder(d, order_number) ==
    SelectSeq(d, LAMBDA r : r.Order_Number # order_number)

\* ActionsHandler.remove_item_from_order: the row is dropped when the user
\* confirms the dialog (reply); nothing else of the row set is touched.
RemoveItem(row_index, reply) ==
    /\ pc \in {"analysed", "session"}
    /\ row_index \in 1..Len(df)
    /\ df' = IF reply THEN DropRow(df, row_index) ELSE df
    /\ last' = [NoCall EXCEPT !.op = "remove_item",
                              !.order_number = df[row_index].Order_Number,
                              !.skus = <<df[row_index].SKU>>,
                              !.success = reply, !.before = df]
    /\ mw' = IF reply THEN UpdateAllViews(mw, df') ELSE mw
    /\ pc' = "session"
    /\ UNCHANGED <<orders_clean_df, stock_clean_df, prioritized_orders,
                   live_stock, fulfillment_results, stats>>

\* ActionsHandler.remove_entire_order: the rows of the order are dropped when
\* the user confirms the dialog (reply).
RemoveOrder(order_number, reply) ==
    /\ pc \in {"analysed", "session"}
    /\ df' = IF reply THEN DropOrder(df, order_number) ELSE df
    /\ last' = [NoCall EXCEPT !.op = "remove_order",
                              !.order_number = order_number,
                              !.success = reply, !.before = df]
    /\ mw' = IF reply THEN UpdateAllViews(mw, df') ELSE mw
    /\ pc' = "session"
    /\ UNCHANGED <<orders_clean_df, stock_clean_df, prioritized_orders,
                   live_stock, fulfillment_results, stats>>

\* current_notes.split(",")
RECURSIVE SplitComma(_)
SplitComma(note) ==
    LET hits == {i \in 1..Len(note) : note[i] = ","}
    IN  IF hits = {} THEN <<note>>
        ELSE LET first == CHOOSE i \in hits : \A j \in hits : i <= j
             IN  <<SubSeq(note, 1, first - 1)>>
                 \o SplitComma(SubSeq(note, first + 1, Len(note)))

\* new_notes of add_tag_manually for one row
ManualTagNote(current_notes, tag_to_add) ==
    IF current_notes = NoneNote \/ current_notes = <<>> THEN tag_to_add
    ELSE IF \A k \in DOMAIN SplitComma(current_notes) :
               SplitComma(current_notes)[k] # tag_to_add
         THEN current_notes \o CommaSpace \o tag_to_add
         ELSE current_notes

\* The tags the user types into the dialog.
ManualTags == {<<"a">>}

\* ActionsHandler.add_tag_manually: the tag is added to the Status_Note of
\* every row of the order when the user accepts the dialog (ok).
AddTag(order_number, tag_to_add, ok) ==
    /\ pc \in {"analysed", "session"}
    /\ df' = IF ok
             THEN [i \in 1..Len(df) |->
                     IF df[i].Order_Number = order_number
                     THEN [df[i] EXCEPT !.Status_Note = ManualTagNote(@, tag_to_add)]
                     ELSE df[i]]
             ELSE df
    /\ last' = [NoCall EXCEPT !.op = "add_tag", !.order_number = order_number,
                              !.success = ok, !.before = df]
    /\ mw' = IF ok THEN UpdateAllViews(mw, df') ELSE mw
    /\ pc' = "session"
    /\ UNCHANGED <<orders_clean_df, stock_clean_df, prioritized_orders,
                   live_stock, fulfillment_results, stats>>

\* ------------------------------------------------------ run_full_analysis
\* The simulation loop of run_analysis over the prioritized orders.
RECURSIVE Simulate(_, _, _, _)
Simulate(lines, orders, live, results) ==
    IF orders = <<>> THEN [live |-> live, results |-> results, raised |-> FALSE]
    ELSE LET order_number == Head(orders)
             order_items == OrderRows(lines, order_number)
             after == StockAfterOrder(order_items, live)
             decided == [o \in DOMAIN results \cup {order_number} |->
                            IF o = order_number
                            THEN DecideStatus(order_items, live)
                            ELSE results[o]]
         IN  IF after.raised
             THEN [live |-> after.live, results |-> decided, raised |-> TRUE]
             ELSE Simulate(lines, Tail(orders), after.live, decided)

\* core.run_full_analysis on the cleaned files: run_analysis (final_df and
\* stats), the stock alerts, the rules; what it returns, or that it raised.
run_full_analysis(lines, stock, low_stock_threshold, rules) ==
    LET sim == Simulate(lines, PrioritizedOrders(lines), stock, <<>>)
        final_df == [i \in 1..Len(lines) |->
                        ReportRow(lines[i], stock, sim.live, sim.results)]
        alerted == IF low_stock_threshold # NoThreshold
                   THEN WithStockAlert(final_df, low_stock_threshold)
                   ELSE final_df
    IN  IF sim.raised THEN [raised |-> TRUE, df |-> <<>>, stats |-> NoStats]
        ELSE [raised |-> FALSE,
              df |-> IF rules # <<>> THEN RuleEngineApply(alerted, rules) ELSE alerted,
              stats |-> Stats(recalculate_statistics(final_df))]

\* ------------------------------------------------------------ the workers
MaxWorkers == 2
InFlight == mw.analysis_workers + mw.report_workers

\* The order files loaded into the MainWindow.
MaxGuiLines == 2
GuiOrderFiles == {s \in OrderFiles : Len(s) <= MaxGuiLines}

\* The MainWindow with a session and both files loaded, before any analysis.
InitGui ==
    /\ orders_clean_df \in GuiOrderFiles
    /\ stock_clean_df \in StockFiles
    /\ pc = "session"
    /\ prioritized_orders = <<>>
    /\ live_stock = <<>>
    /\ fulfillment_results = <<>>
    /\ df = <<>>
    /\ last = NoCall
    /\ stats = NoStats
    /\ mw = MainWindowIdle

\* ActionsHandler.run_analysis, the slot of the Run Analysis button: the UI
\* is set busy and a worker is started.
StartAnalysis ==
    /\ pc = "session"
    /\ mw.run_analysis_button
    /\ InFlight < MaxWorkers
    /\ mw' = [set_ui_busy(mw, df, TRUE) EXCEPT !.analysis_workers = @ + 1]
    /\ last' = [NoCall EXCEPT !.op = "run_analysis", !.before = df]
    /\ UNCHANGED <<pc, orders_clean_df, stock_clean_df, prioritized_orders,
                   live_stock, fulfillment_results, df, stats>>

\* The signals of an analysis worker reach the GUI thread: result
\* (on_analysis_complete, then data_changed) or error (on_task_error), then
\* finished (set_ui_busy(False)).
FinishAnalysis ==
    /\ pc = "session"
    /\ mw.analysis_workers > 0
    /\ LET r == run_full_analysis(orders_clean_df, stock_clean_df,
                                  mw.low_stock_threshold, <<>>)
           done == [mw EXCEPT !.analysis_workers = @ - 1]
       IN  IF r.raised
           THEN /\ df' = df
                /\ stats' = stats
                /\ mw' = set_ui_busy(done, df, FALSE)
                /\ last' = [NoCall EXCEPT !.op = "task_error", !.success = FALSE,
                                          !.before = df]
           ELSE /\ df' = r.df
                /\ stats' = r.stats
                /\ mw' = set_ui_busy(
                            UpdateAllViews([done EXCEPT !.analysis_stats = r.stats],
                                           r.df),
                            r.df, FALSE)
                /\ last' = [NoCall EXCEPT !.op = "analysis_complete", !.before = df]
    /\ UNCHANGED <<pc, orders_clean_df, stock_clean_df, prioritized_orders,
                   live_stock, fulfillment_results>>

\* ActionsHandler.run_report_logic, reached from an enabled report button: a
\* worker is started on the row set; the UI is not set busy.
StartReport ==
    /\ pc = "session"
    /\ mw.report_buttons
    /\ InFlight < MaxWorkers
    /\ mw' = [mw EXCEPT !.report_workers = @ + 1]
    /\ last' = [NoCall EXCEPT !.op = "run_report", !.before = df]
    /\ UNCHANGED <<pc, orders_clean_df, stock_clean_df, prioritized_orders,
                   live_stock, fulfillment_results, df, stats>>

\* The result of a report worker reaches on_report_generation_complete.
FinishReport ==
    /\ pc = "session"
    /\ mw.report_workers > 0
    /\ mw' = [mw EXCEPT !.report_workers = @ - 1]
    /\ last' = [NoCall EXCEPT !.op = "report_complete", !.before = df]
    /\ UNCHANGED <<pc, orders_clean_df, stock_clean_df, prioritized_orders,
                   live_stock, fulfillment_results, df, stats>>

\* ----------------------------------------------------- the specifications
\* One call of run_analysis: the simulation loop, then the report.
NextAnalysis ==
    \/ AllocateOrder
    \/ BuildReport

SpecAnalysis == Init /\ [][NextAnalysis]_vars

\* A session whose profile configures no rule.
Next ==
    \/ AllocateOrder
    \/ BuildReport
    \/ \E order_number \in OrderNumbers : Toggle(order_number)

Spec == Init /\ [][Next]_vars

\* A session whose profile configures rules.
NextRules ==
    \/ AllocateOrder
    \/ BuildReport
    \/ \E rules \in RuleConfigs : ApplyRules(rules)
    \/ \E order_number \in OrderNumbers : Toggle(order_number)

SpecRules == Init /\ [][NextRules]_vars

\* RuleEngine.apply called once on a frame.
NextEngine == \E rules_config \in EngineConfigs : EngineApply(rules_config)

SpecEngine == InitEngine /\ [][NextEngine]_vars

\* A session in which the user deletes rows and orders from the result.
NextEdits ==
    \/ AllocateOrder
    \/ BuildReport
    \/ \E row_index \in 1..MaxLines, reply \in BOOLEAN : RemoveItem(row_index, reply)
    \/ \E order_number \in OrderNumbers, reply \in BOOLEAN :
          RemoveOrder(order_number, reply)

SpecEdits == Init /\ [][NextEdits]_vars

\* A session whose result carries the stock alerts of run_full_analysis.
NextAlerts ==
    \/ AllocateOrder
    \/ BuildReport
    \/ AddStockAlerts
    \/ \E order_number \in OrderNumbers : pc = "session" /\ Toggle(order_number)

SpecAlerts == InitAlerts /\ [][NextAlerts]_vars

\* The MainWindow: the buttons start workers, the table (double click and
\* context menu on a row) edits the row set.
NextGui ==
    \/ StartAnalysis
    \/ FinishAnalysis
    \/ StartReport
    \/ FinishReport
    \/ \E order_number \in OrdersOf(df) : Toggle(order_number)
    \/ \E order_number \in OrdersOf(df), tag_to_add \in ManualTags, ok \in BOOLEAN :
          AddTag(order_number, tag_to_add, ok)
    \/ \E row_index \in 1..MaxLines, reply \in BOOLEAN : RemoveItem(row_index, reply)
    \/ \E order_number \in OrdersOf(df), reply \in BOOLEAN :
          RemoveOrder(order_number, reply)

SpecGui == InitGui /\ [][NextGui]_vars
\* ================================================================ claims
\* All rows of one Order_Number carry the same Order_Fulfillment_Status.
UniformStatus(d) ==
    \A i, j \in 1..Len(d) :
        d[i].Order_Number = d[j].Order_Number
            => d[i].Order_Fulfillment_Status = d[j].Order_Fulfillment_Status

\* C1: run_analysis never partially fulfills an order: a pass of the
\* simulation that marks an order Not Fulfillable leaves live_stock as it was,
\* and in the result every row of one order carries the same status.
C1_NoPartialFulfillment ==
    [][/\ (/\ AllocateOrder
           /\ fulfillment_results'[Head(prioritized_orders)] = "Not Fulfillable")
          => live_stock' = live_stock
       /\ (pc = "simulate" /\ pc' = "analysed") => UniformStatus(df')]_vars

\* C1 witness: a result with a Not Fulfillable order of several lines, one of
\* which needs a positive quantity that the final stock still covers.
C1_Witness ==
    /\ pc = "analysed"
    /\ \E i \in 1..Len(df) :
          /\ df[i].Order_Fulfillment_Status = "Not Fulfillable"
          /\ Len(OrderRows(df, df[i].Order_Number)) > 1
          /\ df[i].Quantity > 0
          /\ ~IsNaN(df[i].Final_Stock)
          /\ df[i].Quantity <= Val(df[i].Final_Stock)

\* The balance of a row: Final_Stock is the initial Stock minus the summed
\* Quantity of the Fulfillable rows with the SKU of the row.
FulfillableRows(d) ==
    SelectSeq(d, LAMBDA r : r.Order_Fulfillment_Status = "Fulfillable")
Balanced(d, i) ==
    d[i].Final_Stock = Num(d[i].Stock - GroupQuantity(FulfillableRows(d), d[i].SKU))

\* C2: after run_analysis, for every SKU of the result rows, Final_Stock is
\* the initial Stock minus the summed Quantity of the Fulfillable rows with
\* that SKU.
C2_FinalStockBalance ==
    pc = "analysed" => \A i \in 1..Len(df) : Balanced(df, i)

\* The same balance for the rows whose SKU the stock file lists.
C2_ListedSkusBalance ==
    pc = "analysed" =>
        \A i \in 1..Len(df) : df[i].SKU \in DOMAIN stock_clean_df => Balanced(df, i)

\* The priority of the claim: more line items first, then the smaller order
\* number.
LineCount(o) == Cardinality({i \in 1..Len(orders_clean_df) :
                                orders_clean_df[i].Order_Number = o})
HigherPriority(b, a) ==
    \/ LineCount(b) > LineCount(a)
    \/ LineCount(b) = LineCount(a) /\ b < a
IsMulti(o) == LineCount(o) > 1
MultiLines == SelectSeq(orders_clean_df, LAMBDA l : IsMulti(l.Order_Number))
MultiDemand(sku) == GroupQuantity(MultiLines, sku)
InitialStock(sku) == IF sku \in DOMAIN stock_clean_df THEN stock_clean_df[sku] ELSE 0
Needs(o, sku) ==
    \E i \in 1..Len(orders_clean_df) :
        /\ orders_clean_df[i].Order_Number = o
        /\ orders_clean_df[i].SKU = sku
        /\ orders_clean_df[i].Quantity > 0

\* C3: the simulation decides the orders by item_count descending, then
\* Order_Number ascending: an order is decided only when every order of
\* higher priority has been decided.  So when the stock suffices for all
\* multi-item orders combined, every multi-item order is decided Fulfillable,
\* and every single-item order needing a SKU whose stock the multi-item
\* orders use up exactly is decided Not Fulfillable.
C3_PriorityOrder ==
    /\ \A a \in DOMAIN fulfillment_results :
          \A b \in OrdersOf(orders_clean_df) :
              HigherPriority(b, a) => b \in DOMAIN fulfillment_results
    /\ (\A sku \in SKUSet : MultiDemand(sku) <= InitialStock(sku)) =>
          \A o \in DOMAIN fulfillment_results :
              /\ IsMulti(o) => fulfillment_results[o] = "Fulfillable"
              /\ \A sku \in SKUSet :
                    (/\ ~IsMulti(o)
                     /\ MultiDemand(sku) = InitialStock(sku)
                     /\ Needs(o, sku))
                        => fulfillment_results[o] = "Not Fulfillable"

\* C3 witness: a result where a multi-item order took the last stock of a SKU
\* and a single-item order with a smaller order number, needing that SKU, went
\* without.
C3_Witness ==
    /\ pc = "analysed"
    /\ \A sku \in SKUSet : MultiDemand(sku) <= InitialStock(sku)
    /\ \E m, o \in DOMAIN fulfillment_results : \E sku \in SKUSet :
          /\ IsMulti(m) /\ ~IsMulti(o) /\ o < m
          /\ Needs(m, sku) /\ Needs(o, sku)
          /\ MultiDemand(sku) = InitialStock(sku)
          /\ fulfillment_results[m] = "Fulfillable"
          /\ fulfillment_results[o] = "Not Fulfillable"
\* ---------------------------------------------------------------- toggles
\* The order the last call toggled, its status before the call (the status of
\* its first row), and the quantity it needs of a SKU.
Toggled == last.op = "toggle" /\ last.order_number \in OrdersOf(last.before)
StatusBefore == last.before[CHOOSE i \in 1..Len(last.before) :
                    /\ last.before[i].Order_Number = last.order_number
                    /\ \A j \in 1..(i - 1) :
                          last.before[j].Order_Number # last.order_number
                ].Order_Fulfillment_Status
Needed(d, o, sku) ==
    LET idx == {i \in 1..Len(d) : d[i].Order_Number = o /\ d[i].SKU = sku}
        RECURSIVE Sum(_)
        Sum(S) == IF S = {} THEN 0
                  ELSE LET i == CHOOSE x \in S : TRUE
                       IN  d[i].Quantity + Sum(S \ {i})
    IN  Sum(idx)
OrderSkus(d, o) == {d[i].SKU : i \in {j \in 1..Len(d) : d[j].Order_Number = o}}
\* The current Final_Stock of a SKU: that of the first row with the SKU.
StockNow(d, sku) ==
    d[CHOOSE i \in 1..Len(d) :
        d[i].SKU = sku /\ \A j \in 1..(i - 1) : d[j].SKU # sku].Final_Stock
\* The SKUs of the order whose needed quantity exceeds the current Final_Stock
\* (no quantity exceeds a NaN stock: the comparison is False).
ShortSkus(d, o) ==
    {sku \in OrderSkus(d, o) :
        /\ ~IsNaN(StockNow(d, sku))
        /\ Needed(d, o, sku) > Val(StockNow(d, sku))}

\* C4: a toggle of a Not Fulfillable order that needs more of some SKU than
\* its current Final_Stock returns success = false, and the row set after the
\* call is the row set before it.
C4_FailedToggleIsAtomic ==
    (/\ Toggled
     /\ StatusBefore = "Not Fulfillable"
     /\ ShortSkus(last.before, last.order_number) # {})
        => (~last.success /\ df = last.before)

\* C4 witness: a failed force-fulfill of an order with two SKUs, one of them
\* in stock for the order.
C4_Witness ==
    /\ Toggled
    /\ StatusBefore = "Not Fulfillable"
    /\ ~last.success
    /\ ShortSkus(last.before, last.order_number) # {}
    /\ \E sku \in OrderSkus(last.before, last.order_number) :
          /\ sku \notin ShortSkus(last.before, last.order_number)
          /\ Needed(last.before, last.order_number, sku) > 0

\* C5: after any sequence of toggles on a run_analysis result, for every SKU
\* Final_Stock is the initial Stock minus the summed Quantity of the rows
\* with that SKU that are Fulfillable now.
C5_ToggleKeepsBalance ==
    last.op = "toggle" => \A i \in 1..Len(df) : Balanced(df, i)

\* The same balance after toggles, for the rows whose Final_Stock is a number.
C5_NumericStockBalance ==
    last.op = "toggle" =>
        \A i \in 1..Len(df) : ~IsNaN(df[i].Final_Stock) => Balanced(df, i)

\* C6: a successful toggle of an order to Not Fulfillable directly followed
\* by a successful toggle of the same order back to Fulfillable leaves every
\* row with the Final_Stock it had before the first toggle, and the order
\* with the status it had.
C6_ToggleRoundTrip ==
    (/\ Toggled
     /\ last.success
     /\ last.order_number \in OrdersOf(last.origin)
     /\ last.origin[CHOOSE i \in 1..Len(last.origin) :
            /\ last.origin[i].Order_Number = last.order_number
            /\ \A j \in 1..(i - 1) : last.origin[j].Order_Number # last.order_number
        ].Order_Fulfillment_Status = "Fulfillable")
        => /\ Len(df) = Len(last.origin)
           /\ \A i \in 1..Len(df) :
                 /\ df[i].Final_Stock = last.origin[i].Final_Stock
                 /\ df[i].Order_Number = last.order_number
                       => df[i].Order_Fulfillment_Status = "Fulfillable"

\* C6 witness: a completed round trip of an order that shares a SKU, of which
\* it needs a positive quantity, with another order.
C6_Witness ==
    /\ Toggled
    /\ last.success
    /\ last.order_number \in OrdersOf(last.origin)
    /\ StatusBefore = "Not Fulfillable"
    /\ \A i \in 1..Len(df) :
          df[i].Order_Number = last.order_number
              => last.origin[i].Order_Fulfillment_Status = "Fulfillable"
    /\ \E i, j \in 1..Len(df) :
          /\ df[i].Order_Number = last.order_number
          /\ df[j].Order_Number # last.order_number
          /\ df[i].SKU = df[j].SKU
          /\ df[i].Quantity > 0
          /\ last.before[j].Final_Stock # df[j].Final_Stock
\* What a successful force-fulfill of the claim leaves: the needed quantity
\* subtracted on every row sharing a SKU with the order, every row of the
\* order Fulfillable, nothing else changed.
ForceFulfilled(before, o, after) ==
    /\ Len(after) = Len(before)
    /\ \A i \in 1..Len(after) :
          /\ after[i].Final_Stock =
                IF before[i].SKU \in OrderSkus(before, o)
                THEN Num(Val(before[i].Final_Stock) - Needed(before, o, before[i].SKU))
                ELSE before[i].Final_Stock
          /\ after[i].Order_Fulfillment_Status =
                IF before[i].Order_Number = o THEN "Fulfillable"
                ELSE before[i].Order_Fulfillment_Status
Covered(d, o) ==
    \A sku \in OrderSkus(d, o) :
        /\ ~IsNaN(StockNow(d, sku))
        /\ Needed(d, o, sku) <= Val(StockNow(d, sku))

\* C7: a toggle of a Not Fulfillable order succeeds exactly when, for every
\* SKU of the order, the summed Quantity of the order is at most the current
\* Final_Stock of the SKU; on success the sum is subtracted on every row
\* sharing the SKU and every row of the order is Fulfillable.
C7_ForceFulfillRule ==
    (Toggled /\ StatusBefore = "Not Fulfillable")
        => /\ last.success <=> Covered(last.before, last.order_number)
           /\ last.success => ForceFulfilled(last.before, last.order_number, df)

\* The same rule for the orders all of whose SKUs have a numeric Final_Stock.
C7_NumericStockRule ==
    (/\ Toggled
     /\ StatusBefore = "Not Fulfillable"
     /\ \A sku \in OrderSkus(last.before, last.order_number) :
           ~IsNaN(StockNow(last.before, sku)))
        => /\ last.success <=> Covered(last.before, last.order_number)
           /\ last.success => ForceFulfilled(last.before, last.order_number, df)

Named == {last.skus[k] : k \in 1..Len(last.skus)}

\* C8: the only failure a toggle reports is insufficient stock, and the error
\* names exactly the SKUs of the order whose summed quantity exceeds the
\* current Final_Stock.
C8_OnlyInsufficientStock ==
    (last.op = "toggle" /\ ~last.success)
        => /\ last.error = "Insufficient stock"
           /\ Named = ShortSkus(last.before, last.order_number)

\* C8 as amended: a toggle reports two failures: "Order number not found."
\* for an order without a row, and otherwise insufficient stock, whose error
\* names exactly the SKUs of the order whose summed quantity exceeds the
\* current Final_Stock.
C8_ToggleFailures ==
    (last.op = "toggle" /\ ~last.success)
        => IF last.order_number \notin OrdersOf(last.before)
           THEN last.error = "Order number not found." /\ Named = {}
           ELSE /\ last.error = "Insufficient stock"
                /\ Named # {}
                /\ Named = ShortSkus(last.before, last.order_number)

\* C8 witness: an insufficient-stock failure that names one SKU of the order
\* and not the other, of which the order needs exactly what is left.
C8_Witness ==
    /\ Toggled
    /\ ~last.success
    /\ last.error = "Insufficient stock"
    /\ \E sku \in OrderSkus(last.before, last.order_number) \ Named :
          /\ Needed(last.before, last.order_number, sku) > 0
          /\ StockNow(last.before, sku)
                = Num(Needed(last.before, last.order_number, sku))

\* C9: run_analysis raises on no well-formed input, and marks an order whose
\* every line has quantity 0 Fulfillable.
C9_RunAnalysisIsTotal ==
    /\ pc # "raised"
    /\ pc = "analysed" =>
          \A i \in 1..Len(df) :
              (\A j \in 1..Len(df) :
                  df[j].Order_Number = df[i].Order_Number => df[j].Quantity = 0)
                  => df[i].Order_Fulfillment_Status = "Fulfillable"

\* C10: in every state that run_analysis, RuleEngine.apply and toggles reach,
\* all rows of one Order_Number carry the same Order_Fulfillment_Status.
C10_OrderStatusIsUniform ==
    pc \in {"analysed", "session"} => UniformStatus(df)

\* Without rules the status of an order is uniform in every state.
C10_UniformWithoutRules == UniformStatus(df)

C11_TwoValuedWithoutRules ==
    \A i \in 1..Len(df) :
        df[i].Order_Fulfillment_Status \in {"Fulfillable", "Not Fulfillable"}

\* C12: after run_analysis and any sequence of toggles, all rows sharing a
\* SKU carry the same Final_Stock (a missing value on all of them counts as
\* the same).
C12_SkuRowsShareFinalStock ==
    \A i, j \in 1..Len(df) :
        df[i].SKU = df[j].SKU => df[i].Final_Stock = df[j].Final_Stock

\* C12 witness: a successful toggle changed the numeric Final_Stock of a SKU
\* that rows of two orders share.
C12_Witness ==
    /\ pc = "session" /\ Toggled /\ last.success
    /\ \E i, j \in 1..Len(df) :
          /\ df[i].SKU = df[j].SKU
          /\ df[i].Order_Number = last.order_number
          /\ df[j].Order_Number # last.order_number
          /\ ~IsNaN(df[j].Final_Stock)
          /\ df[j].Final_Stock # last.before[j].Final_Stock

\* ------------------------------------------------------------ direct edits
\* The last call was a removal the user confirmed.
Removed == last.op \in {"remove_item", "remove_order"} /\ last.success
AllBalanced(d) == \A i \in 1..Len(d) : Balanced(d, i)

\* C13: remove_item_from_order and remove_entire_order keep the stock
\* balance: when Final_Stock was the initial Stock minus the summed Quantity
\* of the Fulfillable rows of the SKU on every row before the removal, it is
\* so on every remaining row after it.
C13_RemovalKeepsBalance ==
    (Removed /\ AllBalanced(last.before)) => AllBalanced(df)

\* Removing rows that are not Fulfillable keeps the balance.
C13_UnfulfilledRemovalKeepsBalance ==
    (/\ Removed /\ AllBalanced(last.before)
     /\ \A i \in 1..Len(last.before) :
           last.before[i].Order_Number = last.order_number
              => last.before[i].Order_Fulfillment_Status # "Fulfillable")
        => AllBalanced(df)

\* ------------------------------------------------------- RuleEngine.apply
\* The last call was RuleEngine.apply on its own; the rules it was given.
Applied == pc = "applied"
AppliedRules == last.config.rules
AppliedOneRule == Applied /\ last.config.is_list /\ Len(AppliedRules) = 1
TheRule == AppliedRules[1]
TheAction == TheRule.actions[1]

\* C14: RuleEngine.apply with an empty or null rule list returns the frame it
\* was given: the same rows, columns and values.
C14_EmptyRulesIsIdentity ==
    (Applied /\ (~last.config.is_list \/ AppliedRules = <<>>)) => df = last.before

\* C14 witness: apply was called with None on a frame with rows.
C14_Witness == Applied /\ ~last.config.is_list /\ df # <<>>

\* A condition with a field the frame lacks or an operator OPERATOR_MAP lacks.
Malformed(cond) == cond.field \notin Columns \/ cond.operator \notin OPERATOR_MAP
WellFormed(rule) ==
    [rule EXCEPT !.conditions = SelectSeq(@, LAMBDA cond : ~Malformed(cond))]

\* C15: a condition with an unrecognized operator or a field absent from the
\* row set never matches: under ALL its rule changes no row, under ANY a row
\* changes only when another, well-formed condition of the rule holds on it.
C15_MalformedConditionNeverMatches ==
    (AppliedOneRule /\ \E k \in DOMAIN TheRule.conditions : Malformed(TheRule.conditions[k]))
        => IF TheRule.match = "ALL" THEN df = last.before
           ELSE \A i \in 1..Len(df) :
                   df[i] # last.before[i]
                      => \E k \in DOMAIN TheRule.conditions :
                            /\ ~Malformed(TheRule.conditions[k])
                            /\ ConditionHolds(last.before[i], TheRule.conditions[k])

\* A malformed condition is skipped: the rule acts as the rule without it
\* (and apply returns a frame in every case).
C15_MalformedConditionIsSkipped ==
    AppliedOneRule => df = RuleEngineApply(last.before, <<WellFormed(TheRule)>>)

\* C16: a rule with no usable condition (no condition at all, or only
\* malformed ones) matches no row under ALL and under ANY, so apply leaves
\* every row as it was.
C16_NoUsableConditionMatchesNothing ==
    (AppliedOneRule /\ \A k \in DOMAIN TheRule.conditions : Malformed(TheRule.conditions[k]))
        => df = last.before

\* C16 witness: a rule under ALL whose conditions are all malformed was
\* applied to a frame with rows.
C16_Witness ==
    /\ AppliedOneRule /\ df # <<>>
    /\ TheRule.match = "ALL" /\ TheRule.conditions # <<>>
    /\ \A k \in DOMAIN TheRule.conditions : Malformed(TheRule.conditions[k])

\* The rules applied one after the other, each by a call of its own.
RECURSIVE InTurn(_, _)
InTurn(d, rules) ==
    IF rules = <<>> THEN d ELSE InTurn(RuleEngineApply(d, <<Head(rules)>>), Tail(rules))

\* C17: apply works through the rules in list order and each rule's
\* conditions read the rows as the earlier rules left them: the result of a
\* list is the result of applying its rules one after the other.
C17_RulesSeeEarlierEffects ==
    (Applied /\ last.config.is_list /\ Len(AppliedRules) >= 2)
        => df = InTurn(last.before, AppliedRules)

\* C17 witness: a list whose result differs from matching every rule against
\* the rows as they were before the first rule.
C17_Witness ==
    /\ Applied /\ last.config.is_list /\ Len(AppliedRules) >= 2
    /\ df # ApplyRuleListOnSnapshot(last.before, AppliedRules)

\* C18: ADD_TAG is idempotent: applying the same ADD_TAG rule a second time
\* leaves every Status_Note as the first application left it.
C18_AddTagIsIdempotent ==
    (AppliedOneRule /\ TheAction.type = "ADD_TAG")
        => RuleEngineApply(df, AppliedRules) = df

\* ADD_TAG is idempotent for the tags that do not contain ", ".
C18_SeparatorFreeTagIsIdempotent ==
    (/\ AppliedOneRule /\ TheAction.type = "ADD_TAG"
     /\ Len(SplitNote(TheAction.value)) = 1)
        => RuleEngineApply(df, AppliedRules) = df

\* C19: EXCLUDE_SKU(value) zeroes Quantity and appends the marker to
\* Status_Note on exactly the rows that match the rule and whose SKU is
\* value; Quantity and Status_Note of every other row stay as they were.
C19_ExcludeSkuFrame ==
    (AppliedOneRule /\ TheAction.type = "EXCLUDE_SKU")
        => \A i \in 1..Len(df) :
              IF RowMatches(last.before[i], TheRule)
                 /\ last.before[i].SKU = Word(TheAction.value)
              THEN /\ df[i].Quantity = 0
                   /\ df[i].Status_Note = last.before[i].Status_Note \o ExcludedMarker
              ELSE /\ df[i].Quantity = last.before[i].Quantity
                   /\ df[i].Status_Note = last.before[i].Status_Note

\* C19 witness: of two rows matching the rule, the one with the SKU was
\* excluded and the other was not.
C19_Witness ==
    /\ AppliedOneRule /\ TheAction.type = "EXCLUDE_SKU"
    /\ \E i, j \in 1..Len(df) :
          /\ RowMatches(last.before[i], TheRule) /\ RowMatches(last.before[j], TheRule)
          /\ last.before[i].Quantity > 0 /\ df[i].Quantity = 0
          /\ last.before[j].SKU # Word(TheAction.value)
          /\ df[j] = last.before[j]

\* C20: SET_STATUS(value) overwrites Order_Fulfillment_Status on exactly the
\* rows matching the rule and changes nothing else: no other cell of a
\* matching row (Final_Stock among them) and no cell of any other row.
C20_SetStatusFrame ==
    (AppliedOneRule /\ TheAction.type = "SET_STATUS")
        => \A i \in 1..Len(df) :
              df[i] = IF RowMatches(last.before[i], TheRule)
                      THEN [last.before[i] EXCEPT
                              !.Order_Fulfillment_Status = Word(TheAction.value)]
                      ELSE last.before[i]

\* C20 witness: SET_STATUS changed the status of a matching row and left a
\* row that does not match as it was.
C20_Witness ==
    /\ AppliedOneRule /\ TheAction.type = "SET_STATUS"
    /\ \E i, j \in 1..Len(df) :
          /\ RowMatches(last.before[i], TheRule)
          /\ df[i].Order_Fulfillment_Status # last.before[i].Order_Fulfillment_Status
          /\ df[i].Final_Stock = last.before[i].Final_Stock
          /\ ~RowMatches(last.before[j], TheRule)
          /\ df[j] = last.before[j]

\* ------------------------------------------------------------- statistics
\* The orders with a row of the status.
OrdersWithStatus(d, status) ==
    {o \in OrdersOf(d) :
        \E i \in 1..Len(d) :
            d[i].Order_Number = o /\ d[i].Order_Fulfillment_Status = status}

\* C21: in every row set that run_analysis, RuleEngine.apply and toggles
\* reach, total_orders_completed and total_orders_not_completed are the
\* numbers of orders with a Fulfillable and with a Not Fulfillable row, and
\* they add up to the number of orders of the row set: every order is counted
\* exactly once.
C21_EveryOrderCountedOnce ==
    pc \in {"analysed", "session"} =>
        LET s == recalculate_statistics(df)
        IN  /\ s.total_orders_completed
                  = Cardinality(OrdersWithStatus(df, "Fulfillable"))
            /\ s.total_orders_not_completed
                  = Cardinality(OrdersWithStatus(df, "Not Fulfillable"))
            /\ s.total_orders_completed + s.total_orders_not_completed
                  = Cardinality(OrdersOf(df))

\* Without rules the two counts add up to the number of orders.
C21_CountedOnceWithoutRules ==
    LET s == recalculate_statistics(df)
    IN  s.total_orders_completed + s.total_orders_not_completed
            = Cardinality(OrdersOf(df))

\* --------------------------------------------- SKUs the stock file lacks
\* C22: for a line whose SKU the stock input does not list, run_analysis
\* reports Stock 0 and a Final_Stock equal to that initial stock, 0.
C22_AbsentSkuHasZeroStock ==
    pc = "analysed" =>
        \A i \in 1..Len(df) :
            df[i].SKU \notin DOMAIN stock_clean_df
                => df[i].Stock = 0 /\ df[i].Final_Stock = Num(0)

\* Of the two, the Stock is reported as 0.
C22_AbsentSkuHasStockZero ==
    pc = "analysed" =>
        \A i \in 1..Len(df) :
            df[i].SKU \notin DOMAIN stock_clean_df => df[i].Stock = 0

\* ------------------------------------------------------------ stock alerts
\* The row set carries the Stock_Alert column.
Alerted == pc = "session" /\ mw.low_stock_threshold # NoThreshold
BelowThreshold(final_stock) ==
    (~IsNaN(final_stock)) /\ Val(final_stock) < Val(mw.low_stock_threshold)

\* C23: in the row set run_full_analysis returns and in every row set that
\* toggles make of it, a row carries the Stock_Alert "Low Stock" exactly when
\* its Final_Stock is below the configured threshold.
C23_LowStockAlert ==
    Alerted =>
        \A i \in 1..Len(df) :
            df[i].Stock_Alert = "Low Stock" <=> BelowThreshold(df[i].Final_Stock)

\* The Final_Stock run_analysis reported for a SKU.
AnalysedFinalStock(sku) ==
    FillNa(MergedFinalStock(live_stock, sku), MergedStock(stock_clean_df, sku))

\* C23 as amended: in the row set run_full_analysis returns, a row carries
\* "Low Stock" exactly when its Final_Stock is below the configured
\* threshold; toggles change Final_Stock and leave Stock_Alert as it is, so
\* afterwards a row carries "Low Stock" exactly when the Final_Stock that
\* run_analysis reported for its SKU was below the threshold.
C23_AlertOfAnalysedStock ==
    Alerted =>
        /\ \A i \in 1..Len(df) :
              df[i].Stock_Alert = "Low Stock"
                 <=> BelowThreshold(AnalysedFinalStock(df[i].SKU))
        /\ last.op = "alerts" =>
              \A i \in 1..Len(df) :
                  df[i].Stock_Alert = "Low Stock"
                     <=> BelowThreshold(df[i].Final_Stock)

\* C23 witness: after a successful toggle a row carries "Low Stock" although
\* its Final_Stock is no longer below the threshold, next to a row without
\* alert.
C23_Witness ==
    /\ Alerted /\ Toggled /\ last.success
    /\ \E i, j \in 1..Len(df) :
          /\ df[i].Stock_Alert = "Low Stock"
          /\ ~BelowThreshold(df[i].Final_Stock)
          /\ df[j].Stock_Alert = ""

\* ------------------------------------------------------- untracked SKUs
\* The SKUs the toggled order needs that the engine has never seen: the
\* stock input does not list them, so live_stock never held them.
UntrackedSkus ==
    {sku \in OrderSkus(last.before, last.order_number) :
        sku \notin DOMAIN stock_clean_df}

\* The row set holds a placeholder row of the SKU: Quantity 0 and Final_Stock
\* minus the quantity needed.
HasPlaceholder(d, sku, needed) ==
    \E i \in 1..Len(d) :
        /\ d[i].SKU = sku /\ d[i].Quantity = 0
        /\ d[i].Order_Number = NoneOrder
        /\ d[i].Final_Stock = Num(0 - needed)

\* C24: when a Not Fulfillable order that needs a SKU the engine has never
\* seen is force-fulfilled, no stock check is made for that SKU (the toggle
\* succeeds when its other SKUs are covered), and a zero-quantity placeholder
\* row of the SKU is appended whose Final_Stock is minus the needed quantity.
C24_UntrackedSkuGetsPlaceholder ==
    (Toggled /\ StatusBefore = "Not Fulfillable" /\ UntrackedSkus # {})
        => /\ last.success
                <=> ShortSkus(last.before, last.order_number) \ UntrackedSkus = {}
           /\ last.success =>
                 \A sku \in UntrackedSkus :
                     HasPlaceholder(df, sku,
                                    Needed(last.before, last.order_number, sku))

\* Every SKU a toggled order needs is a SKU of its own rows, so a toggle
\* finds no needed SKU missing from the row set and appends no row.
C24_NoRowIsAppended ==
    Toggled =>
        /\ OrderSkus(last.before, last.order_number) \subseteq SkusOf(last.before)
        /\ Len(df) = Len(last.before)
        /\ \A i \in 1..Len(df) : df[i].Order_Number # NoneOrder

\* ------------------------------------------------------------ the GUI host
\* The last call was an edit of the row set that was applied.
EditOps == {"toggle", "add_tag", "remove_item", "remove_order"}
EditApplied == last.op \in EditOps /\ last.success

\* C25: the GUI host serializes the work on the row set: at most one worker
\* is in flight, Run Analysis is disabled while an analysis worker is in
\* flight, and no toggle, tag or delete edit is applied while a worker is in
\* flight (an edit leaves the workers as they are, so a worker in flight
\* right after the edit was in flight when it was applied).
C25_GuiSerializesWork ==
    /\ InFlight <= 1
    /\ mw.analysis_workers > 0 => ~mw.run_analysis_button
    /\ EditApplied => InFlight = 0

\* What set_ui_busy does achieve: right after Run Analysis is clicked the
\* analysis and report buttons are disabled.
C25_BusyRightAfterStart ==
    last.op = "run_analysis" => ~mw.run_analysis_button /\ ~mw.report_buttons

\* ------------------------------------------------------- stock never negative
\* C26: after run_analysis and after any sequence of toggles, the Final_Stock
\* of every SKU the stock input lists is at least 0, also when one order has
\* several lines of the same SKU.
C26_FinalStockNeverNegative ==
    \A i \in 1..Len(df) :
        df[i].SKU \in DOMAIN stock_clean_df
            => ~IsNaN(df[i].Final_Stock) /\ Val(df[i].Final_Stock) >= 0

\* No order of the file has two lines of one SKU.
OneLinePerSku ==
    \A i, j \in 1..Len(orders_clean_df) :
        (/\ orders_clean_df[i].Order_Number = orders_clean_df[j].Order_Number
         /\ orders_clean_df[i].SKU = orders_clean_df[j].SKU) => i = j

\* When no order has two lines of one SKU, Final_Stock is never negative.
C26_NonNegativeWithOneLinePerSku ==
    OneLinePerSku => C26_FinalStockNeverNegative

\* ------------------------------------------------------ the greedy result
\* The row set run_analysis returned.
AnalysisResult ==
    [i \in 1..Len(orders_clean_df) |->
        ReportRow(orders_clean_df[i], stock_clean_df, live_stock,
                  fulfillment_results)]

\* The last call was a toggle of a Not Fulfillable order on the row set as
\* run_analysis returned it.
ToggledRejectedOrder ==
    /\ Toggled
    /\ last.before = AnalysisResult
    /\ StatusBefore = "Not Fulfillable"

C27_MaximalForListedSkus ==
    (/\ ToggledRejectedOrder
     /\ OrderSkus(last.before, last.order_number) \subseteq DOMAIN stock_clean_df)
        => ~last.success /\ last.error = "Insufficient stock"

\* ------------------------------------------------------ the frame of a toggle
\* Row i of the row set after the toggle differs from row i before it in
\* column c.
ToggleChanged(i, c) == df[i][c] /= last.before[i][c]

DeductedExactly(d, deducted) ==
    LET lines == SelectSeq(orders_clean_df,
                           LAMBDA r : r.Order_Number \in deducted)
    IN  \A i \in 1..Len(d) :
            ~IsNaN(d[i].Final_Stock) =>
                Val(d[i].Final_Stock) = d[i].Stock - GroupQuantity(lines, d[i].SKU)

\* C29: in every sequence of RuleEngine.apply and toggles after run_analysis
\* the amount deducted from Final_Stock on behalf of each order is 0 or
\* exactly its per-SKU quantities: no order is deducted twice.
C29_NoDoubleDeduction ==
    pc = "session" => \E deducted \in SUBSET OrdersOf(df) : DeductedExactly(df, deducted)

\* Without rules the orders deducted are the orders that are Fulfillable.
C29_FulfillableOrdersDeductedOnce ==
    pc = "session" => DeductedExactly(df, OrdersWithStatus(df, "Fulfillable"))

\* ------------------------------------------------------ the returned stats
\* run_full_analysis has applied the rule list and returns df and stats.
RulesApplied == last.op = "rules"

\* C30: the stats run_full_analysis returns are recalculate_statistics of
\* the row set it returns, for every rule configuration.
C30_StatsDescribeReturnedRows ==
    RulesApplied => stats = Stats(recalculate_statistics(df))

\* The rules left the status and the quantity of every row as they were.
RulesKeptStatusAndQuantity ==
    \A i \in 1..Len(df) :
        /\ df[i].Order_Fulfillment_Status = last.before[i].Order_Fulfillment_Status
        /\ df[i].Quantity = last.before[i].Quantity

\* The returned stats describe the returned rows when the rules changed
\* neither a status nor a quantity.
C30_StatsOfUnchangedStatuses ==
    (RulesApplied /\ RulesKeptStatusAndQuantity)
        => stats = Stats(recalculate_statistics(df))
====
